---- MODULE Spec2Model ----
(***************************************************************************)
(* The clause-review workflow of the Terms-Compliance-Agent: the LangGraph *)
(* state graph built by create_graph (langgraph_components/graph.py), the  *)
(* ContractState dictionary it threads through its nodes, the routers that *)
(* pick the next node, and the human feedback loop that resumes a          *)
(* suspended session with a feedback payload (app.py).                     *)
(*                                                                         *)
(* String values: the labels "공정" / "불공정" of the source are written    *)
(* "fair" / "unfair"; clause texts are sequences of tokens (see TokLen).   *)
(***************************************************************************)
EXTENDS Integers, Sequences, FiniteSets, TLC

(***************************************************************************)
(* Bounds of the model.                                                    *)
(***************************************************************************)
\* A session is resumed at most MAX_ITERATIONS + MaxOverrun times, so that
\* the counters the code leaves unbounded stay finite in the model.
MaxOverrun == 1

(***************************************************************************)
(* Program constants.                                                      *)
(***************************************************************************)
\* config2.MAX_ITERATIONS (imported at app.py:15); "constant, default 3".
MAX_ITERATIONS == 3
\* Minimum admissible length of a clause after trimming (utils.py:30).
MIN_CLAUSE_LEN == 20
\* Retry cap and acceptance bound (percent) of the fairness classification.
FAIRNESS_MAX_RETRIES == 1
FAIRNESS_CONFIDENCE_MIN == 70
\* Request size of an evidence query ("design constant: 5").
RETRIEVE_K == 5
\* The closed taxonomy of violation types: 6 entries, the last the catch-all.
UNFAIR_TYPES == <<"type1", "type2", "type3", "type4", "type5", "other">>

(***************************************************************************)
(* Dictionaries: ContractState is a TypedDict without reducers, so a node's *)
(* partial update (and the input of an invoke) overwrites the keys it      *)
(* names and leaves every other key as it was.                             *)
(***************************************************************************)
EmptyDict == [k \in {} |-> 0]

Get(d, k, default) == IF k \in DOMAIN d THEN d[k] ELSE default

\* Mutant of Merge: the update replaces the state instead of being merged
\* into it.
Merge_replacing(d, upd) == upd

Merge(d, upd) ==
    [k \in (DOMAIN d) \cup (DOMAIN upd) |-> IF k \in DOMAIN upd THEN upd[k] ELSE d[k]]

Range(s) == {s[i] : i \in DOMAIN s}

(***************************************************************************)
(* Clause texts.  A text is a sequence of tokens, each standing for a run  *)
(* of characters: "sp" one blank, "bul" one bullet, "circ" one circled     *)
(* numeral, "pnum" a parenthesised number "(1)", "kw" a contract keyword   *)
(* of two characters, "q" a question mark, "chat" a small-talk word of two *)
(* characters, "w9" / "w8" nine / eight characters of neutral text.        *)
(***************************************************************************)
TokLen(t) ==
    CASE t = "sp" -> 1
      [] t = "bul" -> 1
      [] t = "circ" -> 1
      [] t = "pnum" -> 3
      [] t = "kw" -> 2
      [] t = "q" -> 1
      [] t = "chat" -> 2
      [] t = "w9" -> 9
      [] t = "w8" -> 8
      [] OTHER -> 1

RECURSIVE CharLen(_)
CharLen(text) == IF text = <<>> THEN 0 ELSE TokLen(Head(text)) + CharLen(Tail(text))

\* str.lstrip / rstrip / strip generalised to a set of tokens to drop.
RECURSIVE LStrip(_, _)
LStrip(text, drop) ==
    IF text # <<>> /\ Head(text) \in drop THEN LStrip(Tail(text), drop) ELSE text

RECURSIVE RStrip(_, _)
RStrip(text, drop) ==
    IF text # <<>> /\ text[Len(text)] \in drop
    THEN RStrip(SubSeq(text, 1, Len(text) - 1), drop)
    ELSE text

Strip(text) == RStrip(LStrip(text, {"sp"}), {"sp"})

\* re.sub(tok + r'\s*', '', text): drop every tok with the blanks after it.
RECURSIVE DropWithBlanks(_, _)
DropWithBlanks(text, tok) ==
    IF text = <<>> THEN <<>>
    ELSE IF Head(text) = tok THEN DropWithBlanks(LStrip(Tail(text), {"sp"}), tok)
    ELSE <<Head(text)>> \o DropWithBlanks(Tail(text), tok)

\* re.sub(r'\s+', ' ', text): every run of blanks becomes one blank.
RECURSIVE SquashBlanks(_)
SquashBlanks(text) ==
    IF text = <<>> THEN <<>>
    ELSE IF Head(text) = "sp"
         THEN <<"sp">> \o SquashBlanks(LStrip(Tail(text), {"sp"}))
         ELSE <<Head(text)>> \o SquashBlanks(Tail(text))

clean_clause_text(text) ==
    LET a == LStrip(text, {"sp", "bul"})
        b == DropWithBlanks(a, "circ")
        c == DropWithBlanks(b, "pnum")
        d == SquashBlanks(c)
    IN  Strip(d)

\* Mutant of is_valid_contract_clause: a text with a keyword is not looked
\* at for a question mark.
is_valid_contract_clause_keyword_wins(clause) ==
    LET c == Strip(clause) IN
    IF CharLen(c) < MIN_CLAUSE_LEN THEN <<FALSE, "too_short">>
    ELSE IF "kw" \notin Range(c) THEN <<FALSE, "no_keyword">>
    ELSE IF "chat" \in Range(c) THEN <<FALSE, "small_talk">>
    ELSE <<TRUE, "ok">>

\* The validator: <<accepted, reason>>.
is_valid_contract_clause(clause) ==
    LET c == Strip(clause) IN
    IF CharLen(c) < MIN_CLAUSE_LEN THEN <<FALSE, "too_short">>
    ELSE IF "kw" \notin Range(c) THEN <<FALSE, "no_keyword">>
    ELSE IF "q" \in Range(c) THEN <<FALSE, "question">>
    ELSE IF "chat" \in Range(c) THEN <<FALSE, "small_talk">>
    ELSE <<TRUE, "ok">>

\* The clauses a session is started with.
Clauses ==
    { <<"q">>,
      <<"sp", "kw", "w9", "w8", "sp">>,
      <<"w9", "sp", "w9", "w9">>,
      <<"kw", "w9", "w9", "q">>,
      <<"kw", "w9", "w9", "sp", "chat">>,
      <<"bul", "sp", "circ", "sp", "kw", "sp", "sp", "w9", "w9", "sp">> }


(***************************************************************************)
(* External collaborators: what a call may answer.                         *)
(***************************************************************************)
\* Answers of the fairness classifier, as the lines of its response text.
ClassifierResponses ==
    { <<"fair", "0.9">>, <<"unfair", "0.9">>, <<"unfair", "0.5">>, <<"fair", "high">>,
      <<"maybe">> }

\* Raw answers of the typifier.
TypifierOutputs == {"type1", "other", "none of these"}

\* What the evidence index holds: precedent cases and statutes.
CaseA == [id |-> "caseA", similarity |-> 80, related_law |-> "lawX"]
LawL == [id |-> "lawL", similarity |-> 75, related_law |-> ""]
CaseAnswers == { <<>>, <<CaseA>> }
LawAnswers == { <<>>, <<LawL>> }

\* config2.SIMILARITY_THRESHOLD (imported at app.py:15), the slider's default,
\* and the values the slider is moved to (percent).
SIMILARITY_THRESHOLD == 50
Thresholds == {SIMILARITY_THRESHOLD, 90}

(***************************************************************************)
(* State.                                                                  *)
(***************************************************************************)
VARIABLES
    state,           \* the ContractState of the session (checkpointed)
    pc,              \* the node the graph runs next, or "END"
    suspended,       \* the graph is interrupted at "feedback", invoke returned
    feedback_input,  \* the payload of the latest resumption
    log,             \* the records handed to save_result, in order
    visited,         \* the nodes that have run in this session
    received,        \* the user_feedback values supplied so far, in order
    calls,           \* number of calls made to each external collaborator
    failed,          \* the node whose run raised an exception, "" when none did
    disk,            \* "ok", or "full": the log file cannot be written
    saved,           \* number of records written to the log file
    script,          \* what the caller of the graph is doing (see Invokers)
    thread_id,       \* st.session_state.thread_id, the caller's handle of the session
    hitl_pending,    \* st.session_state.hitl_pending
    pending_feedback,   \* st.session_state.pending_feedback
    show_modify_input,  \* st.session_state.show_modify_input
    current_state,   \* st.session_state.current_state, the output of the last invoke
    shown,           \* what the caller last displayed for the session
    sessions,        \* number of sessions started so far
    chunks,          \* the clauses of the batch
    similarity_threshold,   \* the threshold the batch is run with
    results,         \* the result records of the batch, in order
    now,             \* the reading of the clock, which a thread_id is made of
    store            \* the thread_ids the checkpointer was written under, each
                     \* with the browser session that opened it

\* The variables of the callers of the graph: the chatbot mode and the batch.
caller ==
    <<script, thread_id, hitl_pending, pending_feedback, show_modify_input,
      current_state, shown, sessions, chunks, similarity_threshold, results>>

\* What all callers of the cached graph share besides the graph itself.
shared == <<now, store>>

vars ==
    <<state, pc, suspended, feedback_input, log, visited, received, calls,
      failed, disk, saved, caller, shared>>

\* None of Python; also the value of a dictionary that holds nothing.
None == [k \in {} |-> 0]

\* The positions of a caller at which app.invoke is running: "direct", the
\* graph driven through its own interface; "new" and "feedback", the two
\* invokes of run_chatbot_mode; "batch", the invoke of run_batch_analysis.
Invokers == {"direct", "new", "feedback", "batch"}

\* The graph runs its next node: an invoke is in progress and no node raised.
Running == script \in Invokers /\ failed = ""

Nodes ==
    {"clean", "fairness_classification", "classify", "retrieve", "generate_proposal",
     "generate_fair_report", "feedback", "process_feedback"}

\* Mutant of initial_state: the iteration counter starts at 0.
initial_state_from_zero(prompt, threshold, id) ==
    [clause |-> prompt,
     iteration |-> 0,
     session_id |-> id,
     validation_failed |-> FALSE,
     retrieved_cases_metadata |-> <<>>,
     retrieved_laws_metadata |-> <<>>,
     similarity_threshold |-> threshold]

\* initial_state of run_chatbot_mode.
initial_state(prompt, threshold, id) ==
    [clause |-> prompt,
     iteration |-> 1,
     session_id |-> id,
     validation_failed |-> FALSE,
     retrieved_cases_metadata |-> <<>>,
     retrieved_laws_metadata |-> <<>>,
     similarity_threshold |-> threshold]

NoCalls == [c \in {"classifier", "typifier", "index", "generator"} |-> 0]

\* The graph driven through its own interface: one session, just created.
Init ==
    /\ \E prompt \in Clauses :
           state = initial_state(prompt, SIMILARITY_THRESHOLD, <<"session", 1>>)
    /\ pc = "clean"
    /\ suspended = FALSE
    /\ feedback_input = EmptyDict
    /\ log = <<>>
    /\ visited = {}
    /\ received = <<>>
    /\ calls = NoCalls
    /\ failed = ""
    /\ disk = "ok"
    /\ saved = 0
    /\ script = "direct"
    /\ thread_id = <<"session", 1>>
    /\ hitl_pending = FALSE
    /\ pending_feedback = None
    /\ show_modify_input = FALSE
    /\ current_state = None
    /\ shown = ""
    /\ sessions = 1
    /\ chunks = <<>>
    /\ similarity_threshold = SIMILARITY_THRESHOLD
    /\ results = <<>>
    /\ now = 1
    /\ store = {<<<<"session", 1>>, "own">>}

\* A node has run: its update is merged into the state.
Ran(node, upd) ==
    /\ state' = Merge(state, upd)
    /\ visited' = visited \cup {node}

Called(c) == calls' = [calls EXCEPT ![c] = @ + 1]

(***************************************************************************)
(* Routers.                                                                *)
(***************************************************************************)
\* Mutant of route_after_clean: the validation flag is not looked at.
route_after_clean_ignoring_flag(s) == "fairness_classification"

route_after_clean(s) ==
    IF Get(s, "validation_failed", FALSE) THEN "end" ELSE "fairness_classification"

\* Mutant of route_after_fairness: a label it does not know is taken for
\* unfair.
route_after_fairness_unknown_as_unfair(s) ==
    LET classification == Get(s, "fairness_label", "") IN
    IF classification = "" THEN "fairness_classification"
    ELSE IF classification = "fair" THEN "retrieve"
    ELSE "classify"

\* Mutant of route_after_fairness: an unset label is not sent back to the
\* classifier.
route_after_fairness_no_loop(s) ==
    LET classification == Get(s, "fairness_label", "") IN
    IF classification = "fair" THEN "retrieve"
    ELSE IF classification = "unfair" THEN "classify"
    ELSE "end"

\* Mutant of route_after_fairness: an unfair clause goes straight to retrieve.
route_after_fairness_skips_classify(s) ==
    LET classification == Get(s, "fairness_label", "") IN
    IF classification = "" THEN "fairness_classification"
    ELSE IF classification \in {"fair", "unfair"} THEN "retrieve"
    ELSE "end"

route_after_fairness(s) ==
    LET classification == Get(s, "fairness_label", "") IN
    IF classification = "" THEN "fairness_classification"
    ELSE IF classification = "fair" THEN "retrieve"
    ELSE IF classification = "unfair" THEN "classify"
    ELSE "end"

\* Mutant of route_after_retrieve: a session without precedent cases ends.
route_after_retrieve_needs_evidence(s) ==
    IF Get(s, "retrieved_cases_metadata", <<>>) = <<>> THEN "end"
    ELSE IF Get(s, "fairness_label", "none") = "fair" THEN "generate_fair_report"
    ELSE "generate_proposal"

\* Mutant of route_after_retrieve: every label is sent to the draft generator.
route_after_retrieve_always_proposal(s) == "generate_proposal"

route_after_retrieve(s) ==
    IF Get(s, "fairness_label", "none") = "fair"
    THEN "generate_fair_report"
    ELSE "generate_proposal"

\* Mutant of EdgeTarget: a regeneration starts over at the retrieval.
EdgeTarget_regenerate_via_retrieve(answer) ==
    CASE answer = "end" -> "END"
      [] answer = "generate" -> "retrieve"
      [] OTHER -> answer

\* The mapping of a conditional edge: a router's answer to the next node.
EdgeTarget(answer) ==
    CASE answer = "end" -> "END"
      [] answer = "generate" -> "generate_proposal"
      [] OTHER -> answer

(***************************************************************************)
(* clean: validate and normalise the clause.                               *)
(***************************************************************************)
clean_text_node(s) ==
    LET verdict == is_valid_contract_clause(s["clause"]) IN
    IF verdict[1]
    THEN [cleaned_text |-> clean_clause_text(s["clause"])]
    ELSE [validation_failed |-> TRUE, cleaned_text |-> <<verdict[2]>>]

Clean ==
    /\ Running
    /\ pc = "clean"
    /\ Ran("clean", clean_text_node(state))
    /\ pc' = EdgeTarget(route_after_clean(state'))
    /\ UNCHANGED <<suspended, feedback_input, log, received, calls, failed, disk, saved, caller,
                   shared>>


(***************************************************************************)
(* fairness_classification: ask the classifier until it is confident or    *)
(* the retry cap is reached.                                               *)
(***************************************************************************)
\* float(text); -1 stands for ValueError.
ParseFloat(text) ==
    CASE text = "0.9" -> 90
      [] text = "0.5" -> 50
      [] OTHER -> -1

\* lines = response.strip().split('\n'): a response is given as its lines.
parse_fairness_response(lines) ==
    LET fairness_label == IF Len(lines) >= 1 THEN lines[1] ELSE "unfair"
        logit == IF Len(lines) >= 2 /\ ParseFloat(lines[2]) # -1
                 THEN ParseFloat(lines[2])
                 ELSE 0
    IN  <<fairness_label, logit>>

KnownLabel(label) == label \in {"fair", "unfair"}

\* The most confident known label of the history, the latest among equals;
\* <<"unfair", 0>> when no known label was seen.
BestSeen(history) ==
    LET known == {i \in DOMAIN history : KnownLabel(history[i][1])} IN
    IF known = {} THEN <<"unfair", 0>>
    ELSE LET best == CHOOSE i \in known :
                        \A j \in known :
                            \/ history[j][2] < history[i][2]
                            \/ (history[j][2] = history[i][2] /\ j <= i)
         IN  history[best]

fairness_classify_node(s, response) ==
    LET parsed == parse_fairness_response(response)
        history == Append(Get(s, "results_history", <<>>), parsed)
        retries == Get(s, "fairness_retry_count", 0)
    IN  IF KnownLabel(parsed[1]) /\ parsed[2] >= FAIRNESS_CONFIDENCE_MIN
        THEN [fairness_label |-> parsed[1], fairness_confidence |-> parsed[2],
              results_history |-> history]
        ELSE IF retries < FAIRNESS_MAX_RETRIES
        THEN [fairness_label |-> "", fairness_retry_count |-> retries + 1,
              results_history |-> history]
        ELSE [fairness_label |-> BestSeen(history)[1],
              fairness_confidence |-> BestSeen(history)[2],
              results_history |-> history]

FairnessClassify ==
    /\ Running
    /\ pc = "fairness_classification"
    /\ \E response \in ClassifierResponses :
           Ran("fairness_classification", fairness_classify_node(state, response))
    /\ Called("classifier")
    /\ pc' = EdgeTarget(route_after_fairness(state'))
    /\ UNCHANGED <<suspended, feedback_input, log, received, failed, disk, saved, caller,
                   shared>>

(***************************************************************************)
(* classify: the violation type of an unfair clause.                       *)
(***************************************************************************)
classify_type_node(s, raw) ==
    [unfair_type |-> IF raw \in Range(UNFAIR_TYPES) THEN raw ELSE UNFAIR_TYPES[Len(UNFAIR_TYPES)]]

Classify ==
    /\ Running
    /\ pc = "classify"
    /\ \E raw \in TypifierOutputs : Ran("classify", classify_type_node(state, raw))
    /\ Called("typifier")
    /\ pc' = "retrieve"
    /\ UNCHANGED <<suspended, feedback_input, log, received, failed, disk, saved, caller,
                   shared>>

(***************************************************************************)
(* retrieve: precedent cases, then the statutes they refer to.             *)
(***************************************************************************)
TopK(hits) == SubSeq(hits, 1, IF Len(hits) < RETRIEVE_K THEN Len(hits) ELSE RETRIEVE_K)

Relevant(hits, threshold) == SelectSeq(hits, LAMBDA h : h.similarity >= threshold)

\* filtered / unfiltered: the index's answers to the case query with and
\* without the case-type filter; statutes: its answer to the statute query.
retrieve_node(s, filtered, unfiltered, statutes) ==
    LET threshold == Get(s, "similarity_threshold", SIMILARITY_THRESHOLD)
        first == TopK(Relevant(filtered, threshold))
        cases == IF first = <<>> THEN TopK(Relevant(unfiltered, threshold)) ELSE first
    IN  [retrieved_cases_metadata |-> cases,
         retrieved_laws_metadata |-> TopK(Relevant(statutes, threshold))]

\* Queries sent to the index: the filtered case query, the unfiltered one
\* when the first found nothing, and the statute query.
RetrieveQueries(s, filtered) ==
    LET threshold == Get(s, "similarity_threshold", SIMILARITY_THRESHOLD) IN
    IF TopK(Relevant(filtered, threshold)) = <<>> THEN 3 ELSE 2

Retrieve ==
    /\ Running
    /\ pc = "retrieve"
    /\ \E filtered \in CaseAnswers, unfiltered \in CaseAnswers, statutes \in LawAnswers :
           /\ Ran("retrieve", retrieve_node(state, filtered, unfiltered, statutes))
           /\ calls' = [calls EXCEPT !["index"] = @ + RetrieveQueries(state, filtered)]
    /\ pc' = EdgeTarget(route_after_retrieve(state'))
    /\ UNCHANGED <<suspended, feedback_input, log, received, failed, disk, saved, caller,
                   shared>>


(***************************************************************************)
(* generate_proposal / generate_fair_report.  A generated text is recorded *)
(* by what it was generated from: the revision instruction handed to the   *)
(* generator, and the ordinal of the generator call that produced it.      *)
(***************************************************************************)
generate_proposal_node(s, n) ==
    [improvement_proposal |->
        [kind |-> "draft", reason |-> Get(s, "modify_reason", ""), n |-> n]]

generate_fair_report_node(s, n) ==
    [improvement_proposal |-> [kind |-> "fair_report", reason |-> "", n |-> n]]

GenerateProposal ==
    /\ Running
    /\ pc = "generate_proposal"
    /\ Ran("generate_proposal", generate_proposal_node(state, calls["generator"] + 1))
    /\ Called("generator")
    /\ pc' = "feedback"
    /\ UNCHANGED <<suspended, feedback_input, log, received, failed, disk, saved, caller,
                   shared>>

GenerateFairReport ==
    /\ Running
    /\ pc = "generate_fair_report"
    /\ Ran("generate_fair_report", generate_fair_report_node(state, calls["generator"] + 1))
    /\ Called("generator")
    /\ pc' = "END"
    /\ UNCHANGED <<suspended, feedback_input, log, received, failed, disk, saved, caller,
                   shared>>

(***************************************************************************)
(* feedback: the graph is interrupted and invoke returns the state to the  *)
(* caller; a later invoke with a feedback payload resumes it.              *)
(***************************************************************************)
\* str.lower() on the values a payload may carry.
Lower(text) ==
    CASE text = "Modify" -> "modify"
      [] OTHER -> text

\* The payloads of the three buttons of run_chatbot_mode; the caller adds
\* the current similarity threshold to each.
ApprovePayload == [user_feedback |-> "approved", modify_reason |-> "", retry_action |-> ""]
DiscardPayload == [user_feedback |-> "rejected", retry_action |-> "discard", modify_reason |-> ""]
ModifyPayload(reason) == [user_feedback |-> "modify", modify_reason |-> reason, retry_action |-> ""]

\* The payloads a feedback source may supply: those of the buttons, and
\* those any other caller of the graph may send, whose optional fields
\* may be missing (a missing key leaves the state's value as it was).
FeedbackPayloads ==
    { Merge(p, [similarity_threshold |-> t]) :
        p \in {ApprovePayload, DiscardPayload, ModifyPayload("reason 1")},
        t \in Thresholds }
    \cup
    { [user_feedback |-> "approved", retry_action |-> "retry"],
      [user_feedback |-> "rejected", retry_action |-> "retry"],
      [user_feedback |-> "rejected"],
      [user_feedback |-> "modify", modify_reason |-> "reason 2"],
      [user_feedback |-> "modify"],
      [user_feedback |-> "Modify", modify_reason |-> "reason 1"],
      [user_feedback |-> ""],
      [user_feedback |-> "later"],
      [similarity_threshold |-> 90] }

interrupt_for_feedback_node ==
    /\ Running
    /\ pc = "feedback"
    /\ ~suspended
    /\ suspended' = TRUE
    /\ visited' = visited \cup {"feedback"}
    /\ UNCHANGED <<state, pc, feedback_input, log, received, calls, failed, disk, saved, caller,
                   shared>>

\* app.invoke(feedback_input, config): the payload is merged into the
\* checkpointed state and the graph goes on to process_feedback.
Resume ==
    /\ Running
    /\ pc = "feedback"
    /\ suspended
    /\ Len(received) < MAX_ITERATIONS + MaxOverrun
    /\ \E payload \in FeedbackPayloads :
           /\ feedback_input' = payload
           /\ state' = Merge(state, payload)
           /\ received' = Append(received, Get(payload, "user_feedback", "(none)"))
    /\ suspended' = FALSE
    /\ pc' = "process_feedback"
    /\ UNCHANGED <<log, visited, calls, failed, disk, saved, caller,
                   shared>>

(***************************************************************************)
(* process_feedback: the routing table of the feedback decision.           *)
(***************************************************************************)
\* <<the node's update of the state, the status it logs>>
process_feedback_node(s) ==
    LET feedback == Lower(Get(s, "user_feedback", ""))
        retry_action == Get(s, "retry_action", "")
        iteration == Get(s, "iteration", 1)
    IN  IF feedback = "approved" THEN <<EmptyDict, "approved">>
        ELSE IF feedback = "rejected" /\ retry_action = "discard"
        THEN <<EmptyDict, "rejected_discard">>
        ELSE IF feedback = "rejected" /\ retry_action = "retry"
        THEN <<[iteration |-> iteration + 1], "rejected_retry">>
        ELSE IF feedback = "modify" /\ iteration < MAX_ITERATIONS
        THEN <<[iteration |-> iteration + 1], "modify_request">>
        ELSE IF feedback = "modify"
        THEN <<[user_feedback |-> "approved"], "max_iteration_reached">>
        ELSE <<EmptyDict, "unrecognized">>

\* Mutant of save_result: the write is not guarded by try / except.
save_result_unguarded(s, status, iteration, writable) ==
    [record |-> [session_id |-> Get(s, "session_id", "unknown"),
                 status |-> status, iteration |-> iteration],
     written |-> writable,
     raised |-> ~writable]

\* save_result builds the record and appends it to the log file inside
\* try / except Exception: a write that fails is reported on the console
\* and nothing is raised.
save_result(s, status, iteration, writable) ==
    [record |-> [session_id |-> Get(s, "session_id", "unknown"),
                 status |-> status, iteration |-> iteration],
     written |-> writable,
     raised |-> FALSE]

\* Mutant of route_feedback: the answers of the first two branches swapped.
route_feedback_swapped(s) ==
    LET feedback == Lower(Get(s, "user_feedback", ""))
        retry_action == Get(s, "retry_action", "")
    IN  IF feedback = "approved" \/ (feedback = "rejected" /\ retry_action = "discard")
        THEN "generate"
        ELSE IF (feedback = "rejected" /\ retry_action = "retry") \/ feedback = "modify"
        THEN "end"
        ELSE "end"

\* Mutant of route_feedback: retry_action = retry is tested first and alone.
route_feedback_retry_first(s) ==
    LET feedback == Lower(Get(s, "user_feedback", ""))
        retry_action == Get(s, "retry_action", "")
    IN  IF retry_action = "retry" \/ feedback = "modify"
        THEN "generate"
        ELSE IF feedback = "approved" \/ (feedback = "rejected" /\ retry_action = "discard")
        THEN "end"
        ELSE "end"

\* Mutant of route_feedback: the fall-through branch regenerates.
route_feedback_else_generate(s) ==
    LET feedback == Lower(Get(s, "user_feedback", ""))
        retry_action == Get(s, "retry_action", "")
    IN  IF feedback = "approved" \/ (feedback = "rejected" /\ retry_action = "discard")
        THEN "end"
        ELSE "generate"

\* Mutant of route_feedback: user_feedback is compared without lower().
route_feedback_case_sensitive(s) ==
    LET feedback == Get(s, "user_feedback", "")
        retry_action == Get(s, "retry_action", "")
    IN  IF feedback = "approved" \/ (feedback = "rejected" /\ retry_action = "discard")
        THEN "end"
        ELSE IF (feedback = "rejected" /\ retry_action = "retry") \/ feedback = "modify"
        THEN "generate"
        ELSE "end"

\* Mutant of route_feedback: a modify request ends the session.
route_feedback_modify_ends(s) ==
    LET feedback == Lower(Get(s, "user_feedback", ""))
        retry_action == Get(s, "retry_action", "")
    IN  IF feedback = "approved" \/ (feedback = "rejected" /\ retry_action = "discard")
        THEN "end"
        ELSE IF feedback = "rejected" /\ retry_action = "retry"
        THEN "generate"
        ELSE "end"

route_feedback(s) ==
    LET feedback == Lower(Get(s, "user_feedback", ""))
        retry_action == Get(s, "retry_action", "")
    IN  IF feedback = "approved" \/ (feedback = "rejected" /\ retry_action = "discard")
        THEN "end"
        ELSE IF (feedback = "rejected" /\ retry_action = "retry") \/ feedback = "modify"
        THEN "generate"
        ELSE "end"

\* An exception that leaves save_result leaves the node: its update is not
\* applied and the graph does not go on.
ProcessFeedback ==
    /\ Running
    /\ pc = "process_feedback"
    /\ LET saving == save_result(state, process_feedback_node(state)[2],
                                 Get(state, "iteration", 1), disk = "ok")
       IN  /\ log' = Append(log, saving.record)
           /\ saved' = IF saving.written THEN saved + 1 ELSE saved
           /\ IF saving.raised
              THEN /\ failed' = "process_feedback"
                   /\ UNCHANGED <<state, visited, pc>>
              ELSE /\ Ran("process_feedback", process_feedback_node(state)[1])
                   /\ pc' = EdgeTarget(route_feedback(state'))
                   /\ UNCHANGED failed
    /\ UNCHANGED <<suspended, feedback_input, received, calls, disk, caller,
                   shared>>

(***************************************************************************)
(* The specification: one session of the review graph.                     *)
(***************************************************************************)
Next ==
    \/ Clean
    \/ FairnessClassify
    \/ Classify
    \/ Retrieve
    \/ GenerateProposal
    \/ GenerateFairReport
    \/ interrupt_for_feedback_node
    \/ Resume
    \/ ProcessFeedback

Spec == Init /\ [][Next]_vars


(***************************************************************************)
(* The chatbot mode (run_chatbot_mode): the caller of the graph that keeps *)
(* its handle of the session in st.session_state.  Every run of the script *)
(* ends at "idle", where it waits for the user; while app.invoke runs the  *)
(* script is at "new" or "feedback".                                       *)
(***************************************************************************)
\* Sessions a caller starts in one run of the model.
MaxSessions == 2

\* The nodes that call an external collaborator: the classifier, the
\* typifier, the evidence index and the generator.
ExternalCallNodes ==
    {"fairness_classification", "classify", "retrieve", "generate_proposal",
     "generate_fair_report"}

\* The call a node makes raises: the exception leaves app.invoke, and the
\* checkpoint stays the one written before the node started.
ExternalCallFails ==
    /\ Running
    /\ pc \in ExternalCallNodes
    /\ failed' = pc
    /\ UNCHANGED <<state, pc, suspended, feedback_input, log, visited, received, calls,
                   disk, saved, caller,
                   shared>>

\* str.strip() on the texts the reason box may hold.
StripText(text) ==
    CASE text = " " -> ""
      [] text = " reason 1 " -> "reason 1"
      [] OTHER -> text

\* What the user may have typed into the reason box.
ReasonInputs == {"", " ", " reason 1 ", "reason 2"}

\* Of the output of an invoke kept in current_state, the keys the script
\* reads afterwards (app.py 94).
Output(s) == [k \in DOMAIN s \cap {"iteration"} |-> s[k]]

\* app.invoke has returned: the graph ended or was interrupted.
Returned == failed = "" /\ (pc = "END" \/ (pc = "feedback" /\ suspended))

\* The thread_id a prompt makes of a reading of the clock (app.py 245).
ChatThreadId(reading) == <<"session", reading>>

\* Mutant of NewPrompt: the chat input takes a clause while the feedback
\* prompt is open.
NewPrompt_while_pending ==
    /\ script = "idle"
    /\ pending_feedback = None
    /\ sessions < MaxSessions
    /\ sessions' = sessions + 1
    /\ thread_id' = ChatThreadId(now)
    /\ store' = store \cup {<<thread_id', "own">>}
    /\ \E prompt \in Clauses, current_threshold_value \in Thresholds :
           state' = initial_state(prompt, current_threshold_value, thread_id')
    /\ pc' = "clean"
    /\ script' = "new"
    /\ suspended' = FALSE
    /\ feedback_input' = None
    /\ visited' = {}
    /\ received' = <<>>
    /\ calls' = NoCalls
    /\ failed' = ""
    /\ UNCHANGED <<log, disk, saved, hitl_pending, pending_feedback, show_modify_input,
                   current_state, shown, chunks, similarity_threshold, results,
                   now>>

\* A new clause is typed into the chat input: a session is created and the
\* graph is invoked with its initial state.
NewPrompt ==
    /\ script = "idle"
    /\ ~hitl_pending
    /\ pending_feedback = None
    /\ sessions < MaxSessions
    /\ sessions' = sessions + 1
    /\ thread_id' = ChatThreadId(now)
    /\ store' = store \cup {<<thread_id', "own">>}
    /\ \E prompt \in Clauses, current_threshold_value \in Thresholds :
           state' = initial_state(prompt, current_threshold_value, thread_id')
    /\ pc' = "clean"
    /\ script' = "new"
    /\ suspended' = FALSE
    /\ feedback_input' = None
    /\ visited' = {}
    /\ received' = <<>>
    /\ calls' = NoCalls
    /\ failed' = ""
    /\ UNCHANGED <<log, disk, saved, hitl_pending, pending_feedback, show_modify_input,
                   current_state, shown, chunks, similarity_threshold, results,
                   now>>

\* The first invoke returned (app.py 259-291).
NewInvokeReturns ==
    /\ script = "new"
    /\ Returned
    /\ script' = "idle"
    /\ now' = now + 1
    /\ IF Get(state, "validation_failed", FALSE)
       THEN /\ shown' = "input_error"
            /\ thread_id' = None
            /\ UNCHANGED <<current_state, hitl_pending>>
       ELSE IF Get(state, "fairness_label", "") = "fair"
       THEN /\ current_state' = Output(state)
            /\ shown' = "report"
            /\ hitl_pending' = FALSE
            /\ thread_id' = None
       ELSE /\ current_state' = Output(state)
            /\ shown' = "proposal"
            /\ hitl_pending' = TRUE
            /\ UNCHANGED thread_id
    /\ UNCHANGED <<state, pc, suspended, feedback_input, log, visited, received, calls,
                   failed, disk, saved, pending_feedback, show_modify_input, sessions, chunks, similarity_threshold, results,
                   store>>

\* The three buttons of the feedback screen (app.py 104-142).
Approve ==
    /\ script = "idle"
    /\ hitl_pending
    /\ ~show_modify_input
    /\ pending_feedback' = ApprovePayload
    /\ hitl_pending' = FALSE
    /\ shown' = "sending"
    /\ UNCHANGED <<state, pc, suspended, feedback_input, log, visited, received, calls,
                   failed, disk, saved, script, thread_id, show_modify_input,
                   current_state, sessions, chunks, similarity_threshold,
                   results,
                   shared>>

Discard ==
    /\ script = "idle"
    /\ hitl_pending
    /\ ~show_modify_input
    /\ pending_feedback' = DiscardPayload
    /\ hitl_pending' = FALSE
    /\ shown' = "sending"
    /\ UNCHANGED <<state, pc, suspended, feedback_input, log, visited, received, calls,
                   failed, disk, saved, script, thread_id, show_modify_input,
                   current_state, sessions, chunks, similarity_threshold,
                   results,
                   shared>>

\* The Modify button opens the reason screen; its cancel and back buttons
\* close it (app.py 124-127, 152-155, 166-169).
ToggleModifyInput ==
    /\ script = "idle"
    /\ hitl_pending
    /\ show_modify_input' = ~show_modify_input
    /\ shown' = "proposal"
    /\ UNCHANGED <<state, pc, suspended, feedback_input, log, visited, received, calls,
                   failed, disk, saved, script, thread_id, hitl_pending,
                   pending_feedback, current_state,
                   sessions, chunks, similarity_threshold, results,
                   shared>>

\* Mutant of SubmitModify: the submit button is offered at every iteration.
SubmitModify_uncapped ==
    /\ script = "idle"
    /\ hitl_pending
    /\ show_modify_input
    /\ \E modify_reason \in ReasonInputs :
           IF StripText(modify_reason) = ""
           THEN /\ shown' = "reason_required"
                /\ UNCHANGED <<pending_feedback, hitl_pending, show_modify_input>>
           ELSE /\ pending_feedback' = ModifyPayload(StripText(modify_reason))
                /\ hitl_pending' = FALSE
                /\ show_modify_input' = FALSE
                /\ shown' = "sending"
    /\ UNCHANGED <<state, pc, suspended, feedback_input, log, visited, received, calls,
                   failed, disk, saved, script, thread_id, current_state, sessions, chunks,
                   similarity_threshold, results, shared>>

\* Mutant of SubmitModify: the reason is not checked.
SubmitModify_unchecked ==
    /\ script = "idle"
    /\ hitl_pending
    /\ show_modify_input
    /\ Get(current_state, "iteration", 1) < MAX_ITERATIONS
    /\ \E modify_reason \in ReasonInputs :
           /\ pending_feedback' = ModifyPayload(StripText(modify_reason))
           /\ hitl_pending' = FALSE
           /\ show_modify_input' = FALSE
           /\ shown' = "sending"
    /\ UNCHANGED <<state, pc, suspended, feedback_input, log, visited, received, calls,
                   failed, disk, saved, script, thread_id, current_state, sessions, chunks, similarity_threshold, results,
                   shared>>

\* The submit button of the reason screen, which is offered while the
\* iteration shown is below MAX_ITERATIONS (app.py 151-189).
SubmitModify ==
    /\ script = "idle"
    /\ hitl_pending
    /\ show_modify_input
    /\ Get(current_state, "iteration", 1) < MAX_ITERATIONS
    /\ \E modify_reason \in ReasonInputs :
           IF StripText(modify_reason) = ""
           THEN /\ shown' = "reason_required"
                /\ UNCHANGED <<pending_feedback, hitl_pending, show_modify_input>>
           ELSE /\ pending_feedback' = ModifyPayload(StripText(modify_reason))
                /\ hitl_pending' = FALSE
                /\ show_modify_input' = FALSE
                /\ shown' = "sending"
    /\ UNCHANGED <<state, pc, suspended, feedback_input, log, visited, received, calls,
                   failed, disk, saved, script, thread_id, current_state, sessions, chunks, similarity_threshold, results,
                   shared>>

\* Mutant of SendFeedback: the pending feedback is not cleared.
SendFeedback_keeps_pending ==
    /\ script = "idle"
    /\ ~hitl_pending
    /\ pending_feedback # None
    /\ \E current_threshold_value \in Thresholds :
           feedback_input' =
               Merge(pending_feedback, [similarity_threshold |-> current_threshold_value])
    /\ script' = "feedback"
    /\ state' = Merge(state, feedback_input')
    /\ received' = Append(received, Get(feedback_input', "user_feedback", "(none)"))
    /\ suspended' = FALSE
    /\ pc' = "process_feedback"
    /\ UNCHANGED <<log, visited, calls, failed, disk, saved, thread_id, hitl_pending,
                   pending_feedback, show_modify_input, current_state, shown,
                   sessions, chunks, similarity_threshold, results, shared>>

\* Mutant of SendFeedback: the session is resumed whether or not a feedback
\* is pending.
SendFeedback_unprompted ==
    /\ script = "idle"
    /\ pc = "feedback"
    /\ suspended
    /\ \E current_threshold_value \in Thresholds :
           feedback_input' =
               Merge(pending_feedback, [similarity_threshold |-> current_threshold_value])
    /\ pending_feedback' = None
    /\ script' = "feedback"
    /\ state' = Merge(state, feedback_input')
    /\ received' = Append(received, Get(feedback_input', "user_feedback", "(none)"))
    /\ suspended' = FALSE
    /\ hitl_pending' = FALSE
    /\ pc' = "process_feedback"
    /\ UNCHANGED <<log, visited, calls, failed, disk, saved, thread_id,
                   show_modify_input, current_state, shown, sessions, chunks, similarity_threshold,
                   results,
                   shared>>

\* The pending feedback is sent to the graph with the slider's value added
\* (app.py 196-208): the session is resumed.
SendFeedback ==
    /\ script = "idle"
    /\ ~hitl_pending
    /\ pending_feedback # None
    /\ \E current_threshold_value \in Thresholds :
           feedback_input' =
               Merge(pending_feedback, [similarity_threshold |-> current_threshold_value])
    /\ pending_feedback' = None
    /\ script' = "feedback"
    /\ state' = Merge(state, feedback_input')
    /\ received' = Append(received, Get(feedback_input', "user_feedback", "(none)"))
    /\ suspended' = FALSE
    /\ pc' = "process_feedback"
    /\ UNCHANGED <<log, visited, calls, failed, disk, saved, thread_id, hitl_pending,
                   show_modify_input, current_state, shown,
                   sessions, chunks, similarity_threshold, results,
                   shared>>

\* Mutant of ReviewCompleted: only an approval counts as the end.
ReviewCompleted_approved_only(output) == Get(output, "user_feedback", "") = "approved"

\* The test by which the chat takes the output of a feedback invoke for the
\* end of the review (app.py 211-214).
ReviewCompleted(output) ==
    LET last_feedback == Get(output, "user_feedback", "")
        last_retry == Get(output, "retry_action", "")
    IN  \/ last_feedback = "approved"
        \/ (last_feedback = "rejected" /\ last_retry = "discard")

\* The invoke that carried the feedback returned (app.py 208-229).
FeedbackInvokeReturns ==
    /\ script = "feedback"
    /\ Returned
    /\ script' = "idle"
    /\ now' = now + 1
    /\ current_state' = Output(state)
    /\ IF ReviewCompleted(state)
       THEN /\ shown' = "completed"
            /\ UNCHANGED hitl_pending
       ELSE /\ shown' = "proposal"
            /\ hitl_pending' = TRUE
    /\ UNCHANGED <<state, pc, suspended, feedback_input, log, visited, received, calls,
                   failed, disk, saved, thread_id, pending_feedback, show_modify_input, sessions, chunks, similarity_threshold, results,
                   store>>

\* The except blocks around the two invokes (app.py 231-234, 293-297): the
\* error is displayed and the handle of the session is dropped.
InvokeRaised ==
    /\ script \in {"new", "feedback"}
    /\ failed # ""
    /\ script' = "idle"
    /\ now' = now + 1
    /\ shown' = "error"
    /\ hitl_pending' = FALSE
    /\ thread_id' = None
    /\ UNCHANGED <<state, pc, suspended, feedback_input, log, visited, received, calls,
                   failed, disk, saved, pending_feedback, show_modify_input,
                   current_state, sessions, chunks, similarity_threshold, results,
                   store>>

\* No session exists yet; the log directory is writable or not.
InitChat ==
    /\ state = None
    /\ pc = "END"
    /\ suspended = FALSE
    /\ feedback_input = None
    /\ log = <<>>
    /\ visited = {}
    /\ received = <<>>
    /\ calls = NoCalls
    /\ failed = ""
    /\ disk \in {"ok", "full"}
    /\ saved = 0
    /\ script = "idle"
    /\ thread_id = None
    /\ hitl_pending = FALSE
    /\ pending_feedback = None
    /\ show_modify_input = FALSE
    /\ current_state = None
    /\ shown = ""
    /\ sessions = 0
    /\ chunks = <<>>
    /\ similarity_threshold = SIMILARITY_THRESHOLD
    /\ results = <<>>
    /\ now = 1
    /\ store = {}

NextChat ==
    \/ NewPrompt
    \/ Clean
    \/ FairnessClassify
    \/ Classify
    \/ Retrieve
    \/ GenerateProposal
    \/ GenerateFairReport
    \/ interrupt_for_feedback_node
    \/ ProcessFeedback
    \/ ExternalCallFails
    \/ NewInvokeReturns
    \/ Approve
    \/ Discard
    \/ ToggleModifyInput
    \/ SubmitModify
    \/ SendFeedback
    \/ FeedbackInvokeReturns
    \/ InvokeRaised

SpecChat == InitChat /\ [][NextChat]_vars

(***************************************************************************)
(* The batch mode (run_batch_analysis): one invoke per clause of the       *)
(* document, each with a thread_id and an initial state of its own.  The   *)
(* script is at "loop" between two clauses, at "batch" while app.invoke    *)
(* runs and at "done" after the report.  The thread_id is written by its   *)
(* prefix and the index of the clause.                                     *)
(***************************************************************************)
\* Clauses of a batch.
BatchSize == 2

\* The index, from 0, and the text of the clause the loop is at.
BatchIndex == Len(results)
Chunk == chunks[BatchIndex + 1]

BatchNext ==
    /\ script = "loop"
    /\ BatchIndex < Len(chunks)
    /\ thread_id' = <<"batch_session", now, BatchIndex>>
    /\ store' = store \cup {<<thread_id', "own">>}
    /\ state' = initial_state(Chunk, similarity_threshold, thread_id')
    /\ pc' = "clean"
    /\ script' = "batch"
    /\ sessions' = sessions + 1
    /\ suspended' = FALSE
    /\ feedback_input' = None
    /\ visited' = {}
    /\ received' = <<>>
    /\ calls' = NoCalls
    /\ failed' = ""
    /\ UNCHANGED <<log, disk, saved, hitl_pending, pending_feedback, show_modify_input,
                   current_state, shown, chunks, similarity_threshold, results,
                   now>>

\* The record appended for an invoke that returned its output.
ResultOf(chunk, output) ==
    [original_clause |-> chunk,
     fairness_label |-> Get(output, "fairness_label", "N/A"),
     unfair_type |-> Get(output, "unfair_type", "-"),
     improvement_proposal |-> Get(output, "improvement_proposal", "-"),
     related_cases_count |-> Len(Get(output, "retrieved_cases_metadata", <<>>))]

\* The record appended for an invoke that raised.
ErrorResult(chunk, error) ==
    [original_clause |-> chunk,
     fairness_label |-> "error",
     unfair_type |-> <<"error", error>>,
     improvement_proposal |-> "-",
     related_cases_count |-> 0]

BatchCollects ==
    /\ script = "batch"
    /\ Returned
    /\ results' = Append(results, ResultOf(Chunk, state))
    /\ script' = "loop"
    /\ UNCHANGED <<state, pc, suspended, feedback_input, log, visited, received, calls,
                   failed, disk, saved, thread_id, hitl_pending, pending_feedback,
                   show_modify_input, current_state, shown, sessions, chunks,
                   similarity_threshold,
                   shared>>

\* Mutant of BatchInvokeRaised: the exception is not caught in the loop.
BatchInvokeRaised_aborting ==
    /\ script = "batch"
    /\ failed # ""
    /\ script' = "done"
    /\ shown' = "error"
    /\ UNCHANGED <<state, pc, suspended, feedback_input, log, visited, received, calls,
                   failed, disk, saved, thread_id, hitl_pending, pending_feedback,
                   show_modify_input, current_state, sessions, chunks,
                   similarity_threshold, results,
                   shared>>

\* The except block of the loop (pdf_module.py 49-57).
BatchInvokeRaised ==
    /\ script = "batch"
    /\ failed # ""
    /\ results' = Append(results, ErrorResult(Chunk, failed))
    /\ script' = "loop"
    /\ shown' = "error"
    /\ UNCHANGED <<state, pc, suspended, feedback_input, log, visited, received, calls,
                   failed, disk, saved, thread_id, hitl_pending, pending_feedback,
                   show_modify_input, current_state, sessions, chunks,
                   similarity_threshold,
                   shared>>

\* After the last clause the report is displayed (pdf_module.py 62-66).
BatchDone ==
    /\ script = "loop"
    /\ BatchIndex = Len(chunks)
    /\ script' = "done"
    /\ shown' = "batch_report"
    /\ UNCHANGED <<state, pc, suspended, feedback_input, log, visited, received, calls,
                   failed, disk, saved, thread_id, hitl_pending, pending_feedback,
                   show_modify_input, current_state, sessions, chunks,
                   similarity_threshold, results,
                   shared>>

InitBatch ==
    /\ state = None
    /\ pc = "END"
    /\ suspended = FALSE
    /\ feedback_input = None
    /\ log = <<>>
    /\ visited = {}
    /\ received = <<>>
    /\ calls = NoCalls
    /\ failed = ""
    /\ disk = "ok"
    /\ saved = 0
    /\ script = "loop"
    /\ thread_id = None
    /\ hitl_pending = FALSE
    /\ pending_feedback = None
    /\ show_modify_input = FALSE
    /\ current_state = None
    /\ shown = ""
    /\ sessions = 0
    /\ chunks \in [1..BatchSize -> Clauses]
    /\ similarity_threshold \in Thresholds
    /\ results = <<>>
    /\ now = 1
    /\ store = {}

NextBatch ==
    \/ BatchNext
    \/ Clean
    \/ FairnessClassify
    \/ Classify
    \/ Retrieve
    \/ GenerateProposal
    \/ GenerateFairReport
    \/ interrupt_for_feedback_node
    \/ ExternalCallFails
    \/ BatchCollects
    \/ BatchInvokeRaised
    \/ BatchDone

SpecBatch == InitBatch /\ [][NextBatch]_vars

(***************************************************************************)
(* Several browser sessions at once.  load_app_safe is a cached resource   *)
(* (graph.py 151), so every browser session of the server invokes the same *)
(* compiled graph with the same checkpointer, and the thread_id is all     *)
(* that tells their checkpoints apart.  A chat thread_id is made of the    *)
(* reading of the clock alone (app.py 245): an invoke takes time, so two   *)
(* prompts of one browser session read different clocks, but a prompt of   *)
(* another browser session can read the clock this one has just read.      *)
(***************************************************************************)
MaxOthers == 1
\* The sessions of this browser that the others' prompts are set against.
MaxOwnSessions == 1

OthersOpened == {entry \in store : entry[2] = "other"}

\* Another browser session sends a prompt (app.py 245-259, run there).  Its
\* invoke writes its initial state under its thread_id; where that is the
\* thread_id of the session running here, the two share one checkpoint.
OtherSessionPrompt ==
    /\ Cardinality(OthersOpened) < MaxOthers
    /\ store' = store \cup {<<ChatThreadId(now), "other">>}
    /\ \E prompt \in Clauses, current_threshold_value \in Thresholds :
           IF ChatThreadId(now) = thread_id
           THEN /\ state' = Merge(state, initial_state(prompt, current_threshold_value,
                                                       ChatThreadId(now)))
                /\ pc' = "clean"
                /\ suspended' = FALSE
           ELSE UNCHANGED <<state, pc, suspended>>
    /\ UNCHANGED <<feedback_input, log, visited, received, calls, failed, disk, saved,
                   caller, now>>

NextSessions ==
    \/ NextChat /\ sessions' <= MaxOwnSessions
    \/ OtherSessionPrompt

SpecSessions == InitChat /\ [][NextSessions]_vars

(***************************************************************************)
(* The text functions on their own: the clean step applied to every text   *)
(* made of up to MaxMarks list marks, blanks and question marks followed   *)
(* by one of a few bodies, in a session with any value of the slider.      *)
(***************************************************************************)
MaxMarks == 3

Marks == {"sp", "bul", "circ", "pnum", "q"}

Bodies ==
    { <<>>,
      <<"kw", "w9", "w9">>,
      <<"kw", "w8", "w8">>,
      <<"w9", "w9", "w9">>,
      <<"kw", "w9", "w9", "q">>,
      <<"kw", "sp", "sp", "w9", "w9", "sp">>,
      <<"kw", "w9", "circ", "sp", "w9">>,
      <<"kw", "w9", "w9", "sp", "chat">> }

Texts ==
    { marks \o body :
        marks \in UNION {[1..n -> Marks] : n \in 0..MaxMarks},
        body \in Bodies }

InitText ==
    /\ \E prompt \in Texts, current_threshold_value \in Thresholds :
           state = initial_state(prompt, current_threshold_value, <<"session", 1>>)
    /\ pc = "clean"
    /\ suspended = FALSE
    /\ feedback_input = EmptyDict
    /\ log = <<>>
    /\ visited = {}
    /\ received = <<>>
    /\ calls = NoCalls
    /\ failed = ""
    /\ disk = "ok"
    /\ saved = 0
    /\ script = "direct"
    /\ thread_id = <<"session", 1>>
    /\ hitl_pending = FALSE
    /\ pending_feedback = None
    /\ show_modify_input = FALSE
    /\ current_state = None
    /\ shown = ""
    /\ sessions = 1
    /\ chunks = <<>>
    /\ similarity_threshold = SIMILARITY_THRESHOLD
    /\ results = <<>>
    /\ now = 1
    /\ store = {<<<<"session", 1>>, "own">>}

NextText == Clean

SpecText == InitText /\ [][NextText]_vars

(***************************************************************************)
(* The conditional edge after fairness_classification on its own: the      *)
(* router applied to a state as the node may have left it, with any label  *)
(* the classifier's response may be parsed into (parse_fairness_response   *)
(* returns the first line of the response whatever it says), and the graph *)
(* run on from where the router sends it.                                  *)
(***************************************************************************)
FairnessLabels == {"", "fair", "unfair"} \cup {response[1] : response \in ClassifierResponses}

\* The conditional edge of fairness_classification is followed.
RouteAfterFairness ==
    /\ Running
    /\ pc = "route_after_fairness"
    /\ pc' = EdgeTarget(route_after_fairness(state))
    /\ UNCHANGED <<state, suspended, feedback_input, log, visited, received, calls,
                   failed, disk, saved, caller, shared>>

InitRoute ==
    /\ \E prompt \in Clauses, fairness_label \in FairnessLabels :
           /\ is_valid_contract_clause(prompt)[1]
           /\ state = Merge(Merge(initial_state(prompt, SIMILARITY_THRESHOLD, <<"session", 1>>),
                                  clean_text_node(initial_state(prompt, SIMILARITY_THRESHOLD,
                                                                <<"session", 1>>))),
                            [fairness_label |-> fairness_label])
    /\ pc = "route_after_fairness"
    /\ suspended = FALSE
    /\ feedback_input = EmptyDict
    /\ log = <<>>
    /\ visited = {"clean", "fairness_classification"}
    /\ received = <<>>
    /\ calls = [NoCalls EXCEPT !["classifier"] = 1]
    /\ failed = ""
    /\ disk = "ok"
    /\ saved = 0
    /\ script = "direct"
    /\ thread_id = <<"session", 1>>
    /\ hitl_pending = FALSE
    /\ pending_feedback = None
    /\ show_modify_input = FALSE
    /\ current_state = None
    /\ shown = ""
    /\ sessions = 1
    /\ chunks = <<>>
    /\ similarity_threshold = SIMILARITY_THRESHOLD
    /\ results = <<>>
    /\ now = 1
    /\ store = {<<<<"session", 1>>, "own">>}

NextRoute ==
    \/ RouteAfterFairness
    \/ FairnessClassify
    \/ Classify
    \/ Retrieve
    \/ GenerateProposal
    \/ GenerateFairReport
    \/ interrupt_for_feedback_node

SpecRoute == InitRoute /\ [][NextRoute]_vars

(***************************************************************************)
(* Abbreviations used by the properties below.                             *)
(***************************************************************************)
Iter == Get(state, "iteration", 1)
Feedback == Lower(Get(state, "user_feedback", ""))
RetryAction == Get(state, "retry_action", "")
ModifyReason == Get(state, "modify_reason", "")
LastStatus == IF log = <<>> THEN "" ELSE log[Len(log)].status
Generations == calls["generator"]
StatusCount(status) == Cardinality({i \in DOMAIN log : log[i].status = status})
AtProcessFeedback == pc = "process_feedback"
\* END is absorbing: nothing runs, and no draft is generated, after it.
StaysEnded == pc = "END" => (pc' = "END" /\ calls' = calls /\ state' = state)

(***************************************************************************)
(* C1.  In every state iteration is at least 1, has not decreased since    *)
(* the previous state and does not exceed MAX_ITERATIONS; a feedback that  *)
(* would increment it past MAX_ITERATIONS leads to END, not to             *)
(* generate_proposal.  (Refuted: rejected + retry is routed to             *)
(* generate_proposal at any iteration.)                                    *)
(***************************************************************************)
C1_IterationWithinBound ==
    [][ /\ Iter' >= 1
        /\ Iter' >= Iter
        /\ Iter' <= MAX_ITERATIONS
        /\ (AtProcessFeedback /\ Iter >= MAX_ITERATIONS) => pc' # "generate_proposal"
      ]_vars

(***************************************************************************)
(* C2.  process_feedback with user_feedback = modify at iteration >=       *)
(* MAX_ITERATIONS: the next state is END, user_feedback is overwritten to  *)
(* approved, iteration is not incremented and no draft is generated again. *)
(***************************************************************************)
C2_ModifyAtCapForcesApproval ==
    [][ /\ (AtProcessFeedback /\ Feedback = "modify" /\ Iter >= MAX_ITERATIONS)
              => /\ pc' = "END"
                 /\ Get(state', "user_feedback", "") = "approved"
                 /\ Iter' = Iter
                 /\ Generations' = Generations
        /\ StaysEnded
      ]_vars

C2_Witness ==
    /\ pc = "END"
    /\ LastStatus = "max_iteration_reached"
    /\ Get(state, "user_feedback", "") = "approved"
    /\ Lower(Get(feedback_input, "user_feedback", "")) = "modify"

(***************************************************************************)
(* C3.  process_feedback with rejected + retry at iteration <              *)
(* MAX_ITERATIONS: the next state is generate_proposal, iteration is       *)
(* incremented by exactly 1 and modify_reason is unset when the draft is   *)
(* regenerated, whatever feedback earlier cycles gave.  (Refuted: the      *)
(* reason of an earlier modify stays in the state.)                        *)
(***************************************************************************)
C3_RetryRegeneratesWithoutReason ==
    [][ (AtProcessFeedback /\ Feedback = "rejected" /\ RetryAction = "retry"
            /\ Iter < MAX_ITERATIONS)
          => /\ pc' = "generate_proposal"
             /\ Iter' = Iter + 1
             /\ Get(state', "modify_reason", "") = ""
      ]_vars

(***************************************************************************)
(* C4.  With MAX_ITERATIONS = 3, a session that received three modify      *)
(* feedbacks in a row went through iterations 1, 2, 3 and ended with a     *)
(* forced approval: three drafts were generated in all and exactly one     *)
(* record with status max_iteration_reached was logged.                    *)
(***************************************************************************)
ThreeModifies ==
    /\ MAX_ITERATIONS = 3
    /\ Len(received) = 3
    /\ \A i \in 1..3 : Lower(received[i]) = "modify"
    /\ ~AtProcessFeedback

C4_ThreeModifiesThenForcedApproval ==
    ThreeModifies =>
        /\ pc = "END"
        /\ [i \in 1..3 |-> log[i].iteration] = <<1, 2, 3>>
        /\ Iter = 3
        /\ Get(state, "user_feedback", "") = "approved"
        /\ Generations = 3
        /\ StatusCount("max_iteration_reached") = 1
        /\ LastStatus = "max_iteration_reached"

C4_Witness == ThreeModifies /\ pc = "END" /\ Generations = 3

(***************************************************************************)
(* C5.  Every session whose feedback keeps being supplied reaches END      *)
(* after at most MAX_ITERATIONS drafts, for every sequence of feedback     *)
(* values.  (Refuted: repeated rejected + retry regenerates without end;   *)
(* stated here by its bound on the drafts generated.)                      *)
(***************************************************************************)
C5_AtMostMaxIterationsDrafts == Generations <= MAX_ITERATIONS


(***************************************************************************)
(* C6.  When the validator rejects the clause, clean sets                  *)
(* validation_failed and the graph goes straight to END: the classifier is *)
(* never called, and fairness_label, unfair_type, the retrieved evidence   *)
(* and the proposal stay unpopulated in every later state.                 *)
(***************************************************************************)
C6_RejectedInputEndsUnclassified ==
    ("clean" \in visited /\ ~is_valid_contract_clause(state["clause"])[1])
      => /\ Get(state, "validation_failed", FALSE)
         /\ pc = "END"
         /\ visited = {"clean"}
         /\ calls["classifier"] = 0
         /\ DOMAIN state \cap {"fairness_label", "unfair_type", "improvement_proposal"} = {}
         /\ state["retrieved_cases_metadata"] = <<>>
         /\ state["retrieved_laws_metadata"] = <<>>

C6_Witness ==
    /\ pc = "END"
    /\ Get(state, "validation_failed", FALSE)
    /\ state["cleaned_text"] = <<"too_short">>
    /\ CharLen(state["clause"]) >= MIN_CLAUSE_LEN

(***************************************************************************)
(* C7.  A session whose fairness_label is fair never runs classify, never  *)
(* populates unfair_type, never enters feedback or process_feedback, never *)
(* increments iteration, and goes from generate_fair_report to END.        *)
(***************************************************************************)
C7_FairPathSkipsFeedback ==
    Get(state, "fairness_label", "") = "fair"
      => /\ visited \cap {"classify", "generate_proposal", "feedback", "process_feedback"} = {}
         /\ pc \in {"retrieve", "generate_fair_report", "END"}
         /\ "unfair_type" \notin DOMAIN state
         /\ ~suspended
         /\ received = <<>>
         /\ Iter = 1
         /\ "generate_fair_report" \in visited => pc = "END"

C7_Witness ==
    /\ Get(state, "fairness_label", "") = "fair"
    /\ "generate_fair_report" \in visited
    /\ pc = "END"
    /\ state["improvement_proposal"].kind = "fair_report"

(***************************************************************************)
(* C8.  process_feedback with user_feedback = approved, or with rejected   *)
(* and retry_action = discard: the next state is END at any iteration,     *)
(* iteration is unchanged and no draft is generated again; approved wins   *)
(* over any retry_action held in the state.                                *)
(***************************************************************************)
C8_ApproveOrDiscardEnds ==
    [][ /\ (AtProcessFeedback
              /\ (Feedback = "approved" \/ (Feedback = "rejected" /\ RetryAction = "discard")))
              => /\ pc' = "END"
                 /\ Iter' = Iter
                 /\ Generations' = Generations
        /\ StaysEnded
      ]_vars

C8_Witness ==
    /\ pc = "END"
    /\ LastStatus = "approved"
    /\ Feedback = "approved"
    /\ RetryAction = "retry"
    /\ Iter > 1

(***************************************************************************)
(* C9.  process_feedback with a combination no rule of the routing table   *)
(* matches (an unknown or empty user_feedback, or rejected with a          *)
(* retry_action that is neither retry nor discard): the next state is END  *)
(* and no draft is regenerated.                                            *)
(***************************************************************************)
Unmatched ==
    /\ Feedback # "approved"
    /\ Feedback # "modify"
    /\ ~(Feedback = "rejected" /\ RetryAction \in {"retry", "discard"})

C9_UnmatchedFeedbackEnds ==
    [][ /\ (AtProcessFeedback /\ Unmatched)
              => /\ pc' = "END"
                 /\ Iter' = Iter
                 /\ Generations' = Generations
        /\ StaysEnded
      ]_vars

C9_Witness ==
    /\ pc = "END"
    /\ LastStatus = "unrecognized"
    /\ Feedback = "rejected"
    /\ RetryAction = ""

(***************************************************************************)
(* C10.  process_feedback with user_feedback = modify at iteration <       *)
(* MAX_ITERATIONS: iteration is incremented by exactly 1, the next state   *)
(* is generate_proposal, and the draft is regenerated with the             *)
(* modify_reason that feedback supplied.                                   *)
(***************************************************************************)
ModifySupplied(reason) ==
    /\ Lower(Get(feedback_input, "user_feedback", "")) = "modify"
    /\ "modify_reason" \in DOMAIN feedback_input
    /\ feedback_input["modify_reason"] = reason

C10_ModifyRegeneratesWithReason ==
    [][ /\ (AtProcessFeedback /\ Feedback = "modify" /\ Iter < MAX_ITERATIONS)
              => /\ pc' = "generate_proposal"
                 /\ Iter' = Iter + 1
        /\ (pc = "generate_proposal" /\ LastStatus = "modify_request")
              => \A reason \in {"reason 1", "reason 2"} :
                     ModifySupplied(reason)
                       => state'["improvement_proposal"].reason = reason
      ]_vars

C10_Witness ==
    /\ pc = "feedback"
    /\ LastStatus = "modify_request"
    /\ ModifySupplied("reason 2")
    /\ state["improvement_proposal"] = [kind |-> "draft", reason |-> "reason 2", n |-> 3]
    /\ Iter = 3

(***************************************************************************)
(* C11.  Every execution of process_feedback is described by exactly one   *)
(* of five outcomes: approved and ended; rejected + discard and ended;     *)
(* rejected + retry and regenerated; modify and regenerated; modify at the *)
(* iteration cap, forced to approved and ended.  (Refuted as stated: a     *)
(* feedback no rule matches is ended as unrecognized and is none of the    *)
(* five.)                                                                  *)
(***************************************************************************)
ApprovedOutcome == Feedback = "approved" /\ pc' = "END" /\ Iter' = Iter
DiscardOutcome ==
    Feedback = "rejected" /\ RetryAction = "discard" /\ pc' = "END" /\ Iter' = Iter
RetryOutcome ==
    Feedback = "rejected" /\ RetryAction = "retry" /\ pc' = "generate_proposal"
ModifyOutcome ==
    Feedback = "modify" /\ Iter < MAX_ITERATIONS /\ pc' = "generate_proposal"
ForcedApprovalOutcome ==
    /\ Feedback = "modify"
    /\ Iter >= MAX_ITERATIONS
    /\ pc' = "END"
    /\ Get(state', "user_feedback", "") = "approved"
UnrecognizedOutcome == Unmatched /\ pc' = "END" /\ Iter' = Iter

\* How many of the outcomes describe the step.
Matching(outcomes) == Cardinality({i \in DOMAIN outcomes : outcomes[i]})

C11_ExactlyOneOfFiveOutcomes ==
    [][ AtProcessFeedback =>
          Matching(<<ApprovedOutcome, DiscardOutcome, RetryOutcome, ModifyOutcome,
                     ForcedApprovalOutcome>>) = 1
      ]_vars

\* C11 as amended: exactly one of the five outcomes or of a sixth, the
\* unrecognized feedback that ends the session, describes every execution
\* of process_feedback.
C11_ExactlyOneOfSixOutcomes ==
    [][ AtProcessFeedback =>
          Matching(<<ApprovedOutcome, DiscardOutcome, RetryOutcome, ModifyOutcome,
                     ForcedApprovalOutcome, UnrecognizedOutcome>>) = 1
      ]_vars

C11_Witness ==
    /\ pc = "END"
    /\ LastStatus = "unrecognized"
    /\ Get(state, "user_feedback", "") = "later"
    /\ StatusCount("modify_request") = 1
    /\ StatusCount("rejected_retry") = 1

(***************************************************************************)
(* C12.  The self-loop of fairness_classification ends for every sequence  *)
(* of classifier responses: fairness_retry_count never exceeds             *)
(* FAIRNESS_MAX_RETRIES, the classifier is asked at most                   *)
(* FAIRNESS_MAX_RETRIES + 1 times and the loop is left after the last of   *)
(* them; once it is left fairness_label is fair or unfair, and it is       *)
(* unfair when the cap was reached with no known label in the history.     *)
(***************************************************************************)
FairnessRetryCount == Get(state, "fairness_retry_count", 0)
ResultsHistory == Get(state, "results_history", <<>>)
LeftFairnessLoop ==
    "fairness_classification" \in visited /\ pc # "fairness_classification"
NoKnownLabelSeen == \A i \in DOMAIN ResultsHistory : ~KnownLabel(ResultsHistory[i][1])

C12_FairnessLoopEndsLabelled ==
    /\ FairnessRetryCount <= FAIRNESS_MAX_RETRIES
    /\ calls["classifier"] <= FAIRNESS_MAX_RETRIES + 1
    /\ Len(ResultsHistory) = calls["classifier"]
    /\ pc = "fairness_classification" => calls["classifier"] <= FAIRNESS_MAX_RETRIES
    /\ LeftFairnessLoop =>
          /\ Get(state, "fairness_label", "") \in {"fair", "unfair"}
          /\ NoKnownLabelSeen =>
                /\ FairnessRetryCount = FAIRNESS_MAX_RETRIES
                /\ state["fairness_label"] = "unfair"

C12_Witness ==
    /\ LeftFairnessLoop
    /\ NoKnownLabelSeen
    /\ FairnessRetryCount = FAIRNESS_MAX_RETRIES
    /\ Len(ResultsHistory) = FAIRNESS_MAX_RETRIES + 1
    /\ state["fairness_label"] = "unfair"
    /\ pc = "classify"

(***************************************************************************)
(* C13.  The steps of a session occur in strict order:                     *)
(* fairness_classification has completed, with fairness_label set, before  *)
(* retrieve starts; on the unfair path classify has completed, with        *)
(* unfair_type set, before retrieve starts; retrieve has completed before  *)
(* generate_proposal or generate_fair_report starts; and a proposal has    *)
(* been generated before feedback is entered.                              *)
(***************************************************************************)
\* The node is about to run or has run.
Started(node) == pc = node \/ node \in visited

C13_StepsInStrictOrder ==
    /\ Started("fairness_classification") => "clean" \in visited
    /\ Started("classify") =>
          /\ "fairness_classification" \in visited
          /\ Get(state, "fairness_label", "") = "unfair"
    /\ Started("retrieve") =>
          /\ "fairness_classification" \in visited
          /\ Get(state, "fairness_label", "") \in {"fair", "unfair"}
          /\ state["fairness_label"] = "unfair" =>
                ("classify" \in visited /\ "unfair_type" \in DOMAIN state)
    /\ (Started("generate_proposal") \/ Started("generate_fair_report")) =>
          "retrieve" \in visited
    /\ Started("feedback") =>
          /\ "generate_proposal" \in visited
          /\ "improvement_proposal" \in DOMAIN state
    /\ Started("process_feedback") => "feedback" \in visited

C13_Witness ==
    /\ pc = "feedback"
    /\ suspended
    /\ {"clean", "fairness_classification", "classify", "retrieve",
         "generate_proposal"} \subseteq visited
    /\ state["fairness_label"] = "unfair"
    /\ state["unfair_type"] = "other"
    /\ state["improvement_proposal"].n = 1

(***************************************************************************)
(* C15.  Suspending at feedback and resuming with a payload restores the   *)
(* session exactly: nothing changes while it is suspended, and when        *)
(* process_feedback starts clause, cleaned_text, fairness_label,           *)
(* unfair_type, the retrieved cases and laws, improvement_proposal,        *)
(* iteration and session_id are those held at suspension; only             *)
(* user_feedback, retry_action, modify_reason and similarity_threshold may *)
(* differ.  clause never changes after the session is created.             *)
(***************************************************************************)
RestoredKeys ==
    {"clause", "cleaned_text", "fairness_label", "unfair_type",
     "retrieved_cases_metadata", "retrieved_laws_metadata", "improvement_proposal",
     "iteration", "session_id"}
PayloadKeys == {"user_feedback", "retry_action", "modify_reason", "similarity_threshold"}

\* The key is held, with the same value, by both states or by neither.
SameAt(k) ==
    /\ (k \in DOMAIN state) = (k \in DOMAIN state')
    /\ k \in DOMAIN state => state'[k] = state[k]

C15_ResumeRestoresState ==
    [][ /\ (suspended /\ suspended') => state' = state
        /\ (suspended /\ pc' = "process_feedback") =>
              /\ \A k \in RestoredKeys : SameAt(k)
              /\ \A k \in (DOMAIN state \cup DOMAIN state') \ PayloadKeys : SameAt(k)
        /\ Get(state', "clause", <<>>) = Get(state, "clause", <<>>)
      ]_vars

C15_Witness ==
    /\ pc = "process_feedback"
    /\ Iter = 2
    /\ state["improvement_proposal"].n = 2
    /\ state["unfair_type"] = "type1"
    /\ state["retrieved_cases_metadata"] = <<CaseA>>
    /\ state["similarity_threshold"] = 90
    /\ feedback_input = Merge(DiscardPayload, [similarity_threshold |-> 90])
    /\ ModifyReason = ""

C16_FailedStepCanBeRetried ==
    [][ /\ (failed = "" /\ failed' # "")
              => (failed' = pc /\ state' = state /\ pc' = pc)
        /\ (failed # "" /\ script # "idle" /\ script' = "idle")
              => /\ shown' = "error"
                 /\ state' = state /\ pc' = pc
                 /\ thread_id' = state["session_id"]
      ]_vars

(***************************************************************************)
(* C17.  A modify feedback whose reason is empty or only white space is    *)
(* rejected before anything is applied: the submit shows that a reason is  *)
(* required and leaves the session suspended at feedback with its          *)
(* ContractState unchanged, nothing is stored to be sent, process_feedback *)
(* does not run, and the reason screen stays open for a resubmission.  No  *)
(* modify payload with a blank reason is ever pending or sent.             *)
(***************************************************************************)
BlankReason(payload) ==
    /\ Get(payload, "user_feedback", "") = "modify"
    /\ StripText(Get(payload, "modify_reason", "")) = ""

C17_BlankModifyRejected ==
    [][ /\ (hitl_pending /\ shown' = "reason_required")
              => /\ UNCHANGED <<state, pc, suspended, feedback_input, log, visited,
                                received, calls, thread_id>>
                 /\ pc' = "feedback" /\ suspended'
                 /\ pending_feedback' = None
                 /\ hitl_pending' /\ show_modify_input'
                 /\ Get(current_state', "iteration", 1) < MAX_ITERATIONS
        /\ ~BlankReason(pending_feedback')
        /\ ~BlankReason(feedback_input')
      ]_vars

C17_Witness ==
    /\ shown = "reason_required"
    /\ hitl_pending
    /\ show_modify_input
    /\ pending_feedback = None
    /\ pc = "feedback" /\ suspended
    /\ received = <<"modify">>
    /\ Iter = 2

(***************************************************************************)
(* C19.  A failure of save_result to write its record never aborts or      *)
(* redirects the graph: whether or not the log file can be written,        *)
(* process_feedback applies the update of the routing table, raises        *)
(* nothing and goes on to the node route_feedback names; only the number   *)
(* of records written differs.                                             *)
(***************************************************************************)
C19_LoggerFailureSwallowed ==
    [][ (Running /\ pc = "process_feedback")
          => /\ state' = Merge(state, process_feedback_node(state)[1])
             /\ pc' = EdgeTarget(route_feedback(state'))
             /\ failed' = ""
             /\ Len(log') = Len(log) + 1
             /\ saved' = IF disk = "ok" THEN saved + 1 ELSE saved
      ]_vars

C19_Witness ==
    /\ disk = "full"
    /\ saved = 0
    /\ Len(log) = 2
    /\ LastStatus = "modify_request"
    /\ pc = "feedback" /\ suspended
    /\ Iter = 3
    /\ Generations = 3

(***************************************************************************)
(* C18.  In the batch every clause runs as a session of its own: it starts *)
(* from a fresh initial state, with iteration 1 and a thread_id no earlier *)
(* clause had.  A session that raises does not end the loop: it adds an    *)
(* error record and the loop goes on.  At every moment the records are     *)
(* those of the clauses handled so far, one each and in clause order, and  *)
(* when the batch is done every clause has its record.                     *)
(***************************************************************************)
C18_EachClauseOneRecord ==
    [][ /\ (script = "loop" /\ script' = "batch")
              => /\ state' = initial_state(Chunk, similarity_threshold, thread_id')
                 /\ state'["iteration"] = 1
                 /\ state'["session_id"] = <<"batch_session", now, BatchIndex>>
                 /\ BatchIndex > 0 => thread_id' # thread_id
                 /\ visited' = {} /\ ~suspended' /\ results' = results
        /\ (script = "batch" /\ script' # "batch")
              => /\ script' = "loop"
                 /\ Len(results') = Len(results) + 1
                 /\ SubSeq(results', 1, Len(results)) = results
                 /\ failed # "" => results'[Len(results')] = ErrorResult(Chunk, failed)
                 /\ failed = "" => results'[Len(results')] = ResultOf(Chunk, state)
        /\ script' = "batch" => Len(results') < Len(chunks)
        /\ Len(results') <= Len(chunks)
        /\ \A i \in 1..Len(results') : results'[i].original_clause = chunks[i]
        /\ script' = "done" => Len(results') = Len(chunks)
        /\ chunks' = chunks
      ]_vars

C18_Witness ==
    /\ script = "done"
    /\ Len(results) = BatchSize
    /\ results[1].fairness_label = "error"
    /\ results[1].unfair_type = <<"error", "retrieve">>
    /\ results[2].fairness_label = "unfair"
    /\ results[2].related_cases_count = 1
    /\ state["session_id"] = <<"batch_session", now, 1>>

(***************************************************************************)
(* C20.  Sessions that run interleaved over the one compiled graph and the *)
(* one checkpoint store do not touch each other: a step that another       *)
(* session takes (here its prompt, which writes its initial state under    *)
(* its thread_id) changes no field of the state of the session running     *)
(* here, nor the node it stands at, nor whether it is suspended, so this   *)
(* session reaches the states it would reach alone.                        *)
(***************************************************************************)
C20_SessionsDoNotInterfere ==
    [][ OthersOpened' # OthersOpened
            => /\ state' = state
               /\ pc' = pc
               /\ suspended' = suspended
      ]_vars

(***************************************************************************)
(* C21.  The violation type and the draft exist only for an unfair clause, *)
(* the fair report only for a fair one: in every reachable state           *)
(* unfair_type is set only if fairness_label = unfair, the proposal is a   *)
(* draft only if fairness_label = unfair and a fair report only if         *)
(* fairness_label = fair, and generate_proposal is never the node to run   *)
(* with another label than unfair.                                         *)
(***************************************************************************)
ProposalKind == IF "improvement_proposal" \in DOMAIN state
                THEN state["improvement_proposal"].kind
                ELSE ""

C21_PathFieldsMatchLabel ==
    /\ "unfair_type" \in DOMAIN state => Get(state, "fairness_label", "") = "unfair"
    /\ ProposalKind = "draft" => Get(state, "fairness_label", "") = "unfair"
    /\ ProposalKind = "fair_report" => Get(state, "fairness_label", "") = "fair"
    /\ pc = "generate_proposal" => Get(state, "fairness_label", "") = "unfair"

\* A draft regenerated after a modify, and (in another run) a fair report.
C21_Witness ==
    /\ ProposalKind = "draft"
    /\ state["improvement_proposal"].n = 2
    /\ "unfair_type" \in DOMAIN state

C21_WitnessFair ==
    /\ ProposalKind = "fair_report"
    /\ pc = "END"

(***************************************************************************)
(* C22.  The revision instruction is there only while the feedback is a    *)
(* modify: in every reachable state of a session whose last feedback       *)
(* payload stated its modify_reason (as every payload of the buttons       *)
(* does), modify_reason is non-empty only if user_feedback = modify; so it *)
(* is empty after a later approved or rejected feedback, and after a       *)
(* modify at the iteration cap was forced to approved.                     *)
(***************************************************************************)
ReasonStated == feedback_input # None /\ "modify_reason" \in DOMAIN feedback_input

C22_ReasonOnlyWhileModify ==
    (ReasonStated /\ Get(state, "modify_reason", "") # "")
        => Lower(Get(state, "user_feedback", "")) = "modify"

(***************************************************************************)
(* The evidence part of a report (format_rag_results): for the cases and   *)
(* for the statutes a heading, then either the line that says none was     *)
(* found or one line per item.  A line is given by what it is made of.     *)
(***************************************************************************)
format_rag_results(cases_meta, laws_meta, fairness_label) ==
    LET case_prefix == IF fairness_label = "fair" THEN "unfair_case" ELSE ""
        Heading(text) == [kind |-> "heading", text |-> text]
        NoneFound(text) == [kind |-> "none_found", text |-> text]
        cases_heading == IF fairness_label = "fair"
                         THEN <<Heading("reference_cases")>>
                         ELSE <<Heading("similar_cases")>>
        case_lines == [i \in DOMAIN cases_meta |->
                          [kind |-> "item",
                           similarity |-> cases_meta[i].similarity,
                           prefix |-> case_prefix,
                           of |-> cases_meta[i].id]]
        law_lines == [i \in DOMAIN laws_meta |->
                         [kind |-> "item",
                          similarity |-> laws_meta[i].similarity,
                          prefix |-> "law_name",
                          of |-> laws_meta[i].id]]
        cases_output ==
            IF cases_meta = <<>>
            THEN cases_heading \o
                 <<IF fairness_label = "fair" THEN NoneFound("no_unfair_case_found")
                                              ELSE NoneFound("no_case_found")>>
            ELSE IF fairness_label = "fair"
            THEN cases_heading \o <<Heading("unfair_cases_intro")>> \o case_lines
            ELSE cases_heading \o case_lines
        laws_output ==
            IF laws_meta = <<>>
            THEN <<Heading("laws"), NoneFound("no_law_found")>>
            ELSE <<Heading("laws")>> \o law_lines
    IN  <<cases_output, laws_output>>

\* The evidence part of the output of the session's state.
EvidenceOutput(s) ==
    format_rag_results(Get(s, "retrieved_cases_metadata", <<>>),
                       Get(s, "retrieved_laws_metadata", <<>>),
                       Get(s, "fairness_label", ""))

\* The output has the line that says nothing was found.
SaysNoneFound(output) == \E i \in DOMAIN output : output[i].kind = "none_found"

ItemLines(output) == {i \in DOMAIN output : output[i].kind = "item"}

(***************************************************************************)
(* C23.  An empty retrieval is not a failure.  The retrieve step sends the *)
(* filtered case query and the statute query, and the unfiltered case      *)
(* query once more exactly when it may have been needed (never a fourth);  *)
(* when it ends without a case it has sent all three.  Whatever it found,  *)
(* the session has not failed and goes on to generate_proposal (unfair) or *)
(* generate_fair_report (fair), which produce their text; and where a list *)
(* of evidence is empty the output says so with its marker, where it is    *)
(* not it has a line per item and no marker.                               *)
(***************************************************************************)
C23_EmptyRetrievalNotFatal ==
    [][ /\ (pc = "retrieve" /\ pc' # "retrieve")
            => /\ calls'["index"] - calls["index"] \in {2, 3}
               /\ state'["retrieved_cases_metadata"] = <<>>
                      => calls'["index"] - calls["index"] = 3
               /\ failed' = ""
               /\ pc' = IF Get(state, "fairness_label", "") = "fair"
                        THEN "generate_fair_report"
                        ELSE "generate_proposal"
               /\ state'["retrieved_cases_metadata"] = <<>>
                      <=> SaysNoneFound(EvidenceOutput(state')[1])
               /\ state'["retrieved_laws_metadata"] = <<>>
                      <=> SaysNoneFound(EvidenceOutput(state')[2])
               /\ Cardinality(ItemLines(EvidenceOutput(state')[1])) =
                      Len(state'["retrieved_cases_metadata"])
               /\ Cardinality(ItemLines(EvidenceOutput(state')[2])) =
                      Len(state'["retrieved_laws_metadata"])
        /\ (pc \in {"generate_proposal", "generate_fair_report"} /\ pc' # pc /\ failed' = "")
            => /\ "improvement_proposal" \in DOMAIN state'
               /\ pc' \in {"feedback", "END"}
               /\ EvidenceOutput(state') = EvidenceOutput(state)
      ]_vars

\* An unfair session that found neither case nor statute, with its draft.
C23_Witness ==
    /\ pc = "feedback"
    /\ Get(state, "fairness_label", "") = "unfair"
    /\ calls["index"] = 3
    /\ state["retrieved_cases_metadata"] = <<>>
    /\ state["retrieved_laws_metadata"] = <<>>
    /\ ProposalKind = "draft"
    /\ EvidenceOutput(state)[1][2].text = "no_case_found"
    /\ EvidenceOutput(state)[2][2].text = "no_law_found"

(***************************************************************************)
(* C24.  The validator rejects, with a reason that is not empty, every     *)
(* text shorter than MIN_CLAUSE_LEN characters once trimmed and every text *)
(* with a question mark, whatever keywords it has; the rejected session    *)
(* ends at once.  The verdict is a function of the text alone: the clean   *)
(* step writes the verdict the validator gives for the clause, whatever    *)
(* else the state of the session holds.                                    *)
(***************************************************************************)
C24_ShortOrQuestionRejected ==
    [][ (pc = "clean" /\ pc' # "clean") =>
          LET clause == state["clause"]
              verdict == is_valid_contract_clause(clause)
              rejected == Get(state', "validation_failed", FALSE)
          IN  /\ (CharLen(Strip(clause)) < MIN_CLAUSE_LEN \/ "q" \in Range(clause))
                    => /\ rejected
                       /\ state'["cleaned_text"] # <<>>
                       /\ state'["cleaned_text"] # <<"">>
                       /\ pc' = "END"
              /\ rejected <=> ~verdict[1]
              /\ rejected => state'["cleaned_text"] = <<verdict[2]>>
              /\ state'["clause"] = clause
      ]_vars

\* A text long enough, with a keyword and a question mark, was rejected.
C24_Witness ==
    /\ pc = "END"
    /\ Get(state, "validation_failed", FALSE)
    /\ "kw" \in Range(state["clause"])
    /\ "q" \in Range(state["clause"])
    /\ CharLen(Strip(state["clause"])) >= MIN_CLAUSE_LEN
    /\ state["cleaned_text"] = <<"question">>

(***************************************************************************)
(* C25.  The normalizer is idempotent: the text the clean step has written *)
(* is its own normal form, so that cleaning it again would change nothing. *)
(***************************************************************************)
C25_NormalizeIdempotent ==
    (/\ "cleaned_text" \in DOMAIN state
     /\ ~Get(state, "validation_failed", FALSE))
        => clean_clause_text(state["cleaned_text"]) = state["cleaned_text"]

(***************************************************************************)
(* C26.  The batch needs no human in the loop: when the invoke made for a  *)
(* clause has returned and its record is collected, the session of that    *)
(* clause has run to its end; it is not suspended at the feedback node     *)
(* waiting for a feedback nobody will send.                                *)
(***************************************************************************)
C26_BatchSessionsRunToEnd ==
    [][ (script = "batch" /\ script' = "loop" /\ failed = "")
            => /\ pc = "END"
               /\ ~suspended
      ]_vars

(***************************************************************************)
(* C27.  What the chat sends to a suspended session is one of three        *)
(* payloads, each with the value of the slider added: approved; rejected   *)
(* with retry_action = discard; or modify with a reason that is not empty, *)
(* and this one only while the iteration shown, which is the iteration of  *)
(* the session, is below MAX_ITERATIONS.  So it never sends rejected with  *)
(* retry, and never a modify once the iteration has reached the cap.       *)
(***************************************************************************)
ButtonPart(payload) ==
    [k \in DOMAIN payload \ {"similarity_threshold"} |-> payload[k]]

C27_ChatSendsThreePayloads ==
    [][ (script = "idle" /\ script' = "feedback") =>
          /\ "similarity_threshold" \in DOMAIN feedback_input'
          /\ \/ ButtonPart(feedback_input') = ApprovePayload
             \/ ButtonPart(feedback_input') = DiscardPayload
             \/ /\ ButtonPart(feedback_input') =
                       ModifyPayload(feedback_input'["modify_reason"])
                /\ feedback_input'["modify_reason"] \notin {"", " "}
                /\ Get(current_state, "iteration", 1) < MAX_ITERATIONS
                /\ state["iteration"] = Get(current_state, "iteration", 1)
          /\ ~(/\ feedback_input'["user_feedback"] = "rejected"
               /\ feedback_input'["retry_action"] = "retry")
      ]_vars

\* A modify sent at the last iteration that allows one; and the session at
\* the cap with the reason screen open, where nothing can be submitted.
C27_Witness ==
    /\ script = "feedback"
    /\ pc = "process_feedback"
    /\ feedback_input["user_feedback"] = "modify"
    /\ state["iteration"] = MAX_ITERATIONS - 1

C27_WitnessAtCap ==
    /\ script = "idle"
    /\ hitl_pending
    /\ show_modify_input
    /\ Get(current_state, "iteration", 1) = MAX_ITERATIONS

(***************************************************************************)
(* C28.  The chat's reading of the output of a feedback invoke agrees with *)
(* where the graph stands.  As claimed: whenever an invoke that carried a  *)
(* feedback has returned, the chat's test takes the review for completed   *)
(* exactly when the graph reached END, and otherwise the graph is          *)
(* suspended again at the feedback node with a newly generated proposal,   *)
(* for every feedback value the graph can route.                           *)
(***************************************************************************)
ReturnedAfterFeedback == received # <<>> /\ Returned

Regenerated ==
    /\ pc = "feedback"
    /\ suspended
    /\ ProposalKind = "draft"
    /\ state["improvement_proposal"].n = calls["generator"]
    /\ state["improvement_proposal"].n > 1

SameSession ==
    /\ "session_id" \in DOMAIN state
    /\ "session_id" \in DOMAIN state'
    /\ state'["session_id"] = state["session_id"]

C29_RegenerationKeepsEvidence ==
    [][ /\ (SameSession /\ pc # "retrieve")
            => /\ state'["retrieved_cases_metadata"] = state["retrieved_cases_metadata"]
               /\ state'["retrieved_laws_metadata"] = state["retrieved_laws_metadata"]
               /\ calls'["index"] = calls["index"]
        /\ (pc = "process_feedback" /\ pc' # pc)
            => pc' \in {"generate_proposal", "END"}
        /\ (pc = "retrieve" /\ pc' # pc) => state["iteration"] = 1
      ]_vars

\* The third draft of a session whose case, of similarity 80, was retrieved
\* with the threshold 50, the last feedback having brought the threshold 90.
C29_Witness ==
    /\ pc = "feedback"
    /\ suspended
    /\ state["iteration"] = 3
    /\ state["improvement_proposal"].n = 3
    /\ state["retrieved_cases_metadata"] = <<CaseA>>
    /\ CaseA.similarity < state["similarity_threshold"]
    /\ feedback_input["similarity_threshold"] = state["similarity_threshold"]
    /\ calls["index"] <= 3

(***************************************************************************)
(* C30.  In the session state of the chat, hitl_pending and a pending      *)
(* feedback never hold together.  A feedback becomes pending only by a     *)
(* button of the open prompt, which closes the prompt in the same step; a  *)
(* pending feedback is not replaced, and it goes away only by being sent,  *)
(* which clears it in the step that hands it to the graph; and the graph   *)
(* receives a feedback only so.  Hence each submitted feedback is sent     *)
(* exactly once.                                                           *)
(***************************************************************************)
C30_EachFeedbackSentOnce ==
    [][ /\ ~(hitl_pending' /\ pending_feedback' # None)
        /\ (pending_feedback = None /\ pending_feedback' # None)
            => /\ hitl_pending
               /\ ~hitl_pending'
               /\ received' = received
        /\ pending_feedback # None
            => /\ pending_feedback' = None
               /\ script' = "feedback"
               /\ ButtonPart(feedback_input') = pending_feedback
               /\ received' = Append(received, pending_feedback["user_feedback"])
        /\ Len(received') > Len(received) => pending_feedback # None
      ]_vars

\* The second feedback of a session has just been sent.
C30_Witness ==
    /\ script = "feedback"
    /\ pc = "process_feedback"
    /\ pending_feedback = None
    /\ ~hitl_pending
    /\ Len(received) = 2

(***************************************************************************)
(* C31.  While the chat waits for a feedback no new clause is taken, so    *)
(* the feedback reaches the session whose proposal is shown.  Whenever the *)
(* feedback prompt is open (hitl_pending) or a feedback is pending,        *)
(* thread_id is set, it is the session_id of the state the graph holds,    *)
(* and the iteration shown is that of this state; no step taken then       *)
(* starts a session or changes thread_id; and the invoke that carries a    *)
(* feedback resumes the session of this thread_id, on the same clause.     *)
(***************************************************************************)
AwaitingFeedback == hitl_pending \/ pending_feedback # None

C31_FeedbackReachesShownSession ==
    [][ /\ hitl_pending' => thread_id' # None
        /\ AwaitingFeedback'
            => /\ thread_id' # None
               /\ state'["session_id"] = thread_id'
               /\ current_state'["iteration"] = state'["iteration"]
        /\ AwaitingFeedback
            => /\ script' # "new"
               /\ sessions' = sessions
               /\ thread_id' = thread_id
               /\ state'["session_id"] = state["session_id"]
        /\ (hitl_pending /\ hitl_pending') => thread_id' = thread_id
        /\ (script = "idle" /\ script' = "feedback")
            => /\ thread_id # None
               /\ state["session_id"] = thread_id
               /\ state'["session_id"] = thread_id
               /\ state'["clause"] = state["clause"]
      ]_vars

\* The feedback prompt of a second session of the browser is open, at its
\* second draft.
C31_Witness ==
    /\ hitl_pending
    /\ sessions = 2
    /\ thread_id # None
    /\ state["session_id"] = thread_id
    /\ state["iteration"] = 2
    /\ pc = "feedback"
    /\ suspended

(***************************************************************************)
(* C32.  A fairness label that is neither empty, nor fair, nor unfair ends *)
(* the session: the conditional edge after fairness_classification leads   *)
(* to END, and from then on classify, retrieve and the two generators have *)
(* not run and made no call, unfair_type and improvement_proposal are not  *)
(* set, and the session is not suspended at the feedback node.             *)
(***************************************************************************)
UnknownLabel == Get(state, "fairness_label", "") \notin {"", "fair", "unfair"}

NothingRanAfterFairness ==
    /\ pc = "END"
    /\ visited = {"clean", "fairness_classification"}
    /\ calls["typifier"] = 0 /\ calls["index"] = 0 /\ calls["generator"] = 0
    /\ "unfair_type" \notin DOMAIN state
    /\ "improvement_proposal" \notin DOMAIN state
    /\ ~suspended

C32_UnknownLabelEndsSession ==
    [][ /\ (UnknownLabel /\ pc = "route_after_fairness" /\ pc' # pc)
            => /\ pc' = "END"
               /\ state' = state
        /\ (UnknownLabel' /\ pc' # "route_after_fairness") => NothingRanAfterFairness'
      ]_vars

\* The session of a clause whose label was "maybe" has ended.
C32_Witness ==
    /\ pc = "END"
    /\ state["fairness_label"] = "maybe"
    /\ visited = {"clean", "fairness_classification"}

====
